---- MODULE Spec2Model ----
(***************************************************************************)
(* HandMouse.py: the run loop of main() and the gesture logic it calls.    *)
(*                                                                         *)
(* Units.  Times are in tenths of a second (DOUBLE_CLICK_TIMEOUT = 0.3 s   *)
(* is 3, THUMBS_UP_TIME = 2.0 s is 20).  Normalised landmark coordinates   *)
(* are in units of 1/NormScale = 1/9000, in which the margins of 10 and 20 *)
(* pixels of a 720-pixel-high frame are whole numbers (125 and 250).       *)
(* Cursor coordinates are kept twice.  last_mouse_x and last_mouse_y are   *)
(* the values in exact arithmetic, integers in units of 1/Scale pixel;     *)
(* Scale is chosen so that MaxMoves smoothing updates stay exact (beyond   *)
(* that they are truncated to 1/Scale pixel).  cursor64 holds the binary64 *)
(* numbers the interpreter computes, with its rounding, for as long as     *)
(* every target was an end value of np.interp (0 or the screen extent).    *)
(* time.time() is taken to increase strictly from one frame to the next.   *)
(* One action is one pass of the while loop, up to the next loop test or   *)
(* the return of main().                                                   *)
(***************************************************************************)
EXTENDS Integers, Sequences, FiniteSets, TLC

(* ------------------------------ bounds -------------------------------- *)
\* time.time() before the first frame (stands for a large epoch value)
ClockStart == 10
\* the runs of Spec read no frame after this time, and update the cursor at
\* most QuitMoves times
QuitHorizon == 52
QuitMoves == 3
\* the runs of SpecPinch, SpecThumb and SpecTarget read no frame after this time,
\* and update the cursor at most PinchMoves times
PinchHorizon == 52
PinchMoves == 1
\* the runs of SpecClick read no frame after this time
ClickHorizon == 18
\* at most this many cursor updates (frames with a non-thumbs-up hand) per run
MaxMoves == 5
\* the runs of SpecDouble read no frame after this time, update the cursor at
\* most DoubleMoves times and have at most DoubleIdle frames without an update
DoubleHorizon == 3400
DoubleMoves == 158
DoubleIdle == 2
\* the runs of SpecLive: any frame, key or camera failure up to LiveFree; from
\* then on only frames without a hand, up to LiveIdle, and frames with a
\* thumbs-up, up to LiveEnd (which no run can reach: LiveEnd is at least
\* LiveIdle + THUMBS_UP_TIME + two times the largest gap between frames)
LiveFree == 31
LiveIdle == 52
LiveEnd == 114

(* ------------------------- program constants -------------------------- *)
CLICK_DISTANCE == 50
DOUBLE_CLICK_TIMEOUT == 3
SINGLE_CLICK_GUARD == 3
THUMBS_UP_TIME == 20
\* MOUSE_SMOOTHING = 0.2 = SMOOTHING_NUM / SMOOTHING_DEN
SMOOTHING_NUM == 1
SMOOTHING_DEN == 5
screen_w == 1024
screen_h == 768
frame_w == 1280
frame_h == 720
THUMB_MARGIN == 10
FOLD_MARGIN == 20
INTERP_LO == 900
INTERP_HI == 8100
KEY_MASK == 256
ORD_q == 113
ORD_Q == 81
NormScale == 9000

RECURSIVE Pow(_, _)
Pow(b, e) == IF e = 0 THEN 1 ELSE b * Pow(b, e - 1)

\* cursor coordinates are integers in units of 1/Scale pixel: a quarter pixel
\* (the finest target np.interp yields on this screen) divided MaxMoves times
\* by SMOOTHING_DEN
Fine == Pow(SMOOTHING_DEN, MaxMoves)
Scale == 4 * Fine

(* --------------------------- pure functions --------------------------- *)
\* Python int(): truncation towards zero of num/den (den > 0)
ToInt(num, den) == IF num >= 0 THEN num \div den ELSE -((-num) \div den)

\* the pixel coordinate int(landmark.x * w) of a normalised coordinate
ToPixel(v, dim) == ToInt(v * dim, NormScale)

Abs(x) == IF x < 0 THEN -x ELSE x

\* floor of the square root of n, by bisection on lo <= r < hi
RECURSIVE SqrtSearch(_, _, _)
SqrtSearch(n, lo, hi) ==
    IF hi - lo <= 1 THEN lo
    ELSE LET mid == (lo + hi) \div 2
         IN IF mid * mid <= n THEN SqrtSearch(n, mid, hi)
                              ELSE SqrtSearch(n, lo, mid)

\* math.hypot(p2[0] - p1[0], p2[1] - p1[1]), rounded down to a whole pixel
\* (the only use of the result is the comparison with the integer CLICK_DISTANCE)
calculate_distance(p1, p2) ==
    LET dx == p2[1] - p1[1]
        dy == p2[2] - p1[2]
    IN SqrtSearch(dx * dx + dy * dy, 0, Abs(dx) + Abs(dy) + 1)

\* variant of PinchEngaged: the comparison admits equality
PinchEngagedInclusive(distance) == distance <= CLICK_DISTANCE

\* distance < CLICK_DISTANCE
PinchEngaged(distance) == distance < CLICK_DISTANCE

\* get_y(landmark) * NormScale
get_y(y, frame_height) == y * frame_height

\* variant of is_thumbs_up: the thumb comparison admits equality
is_thumbs_up_inclusive(hl, frame_width, frame_height) ==
    LET thumb_up      == get_y(hl.thumb_tip[2], frame_height)
                           <= get_y(hl.thumb_ip_y, frame_height) - THUMB_MARGIN * NormScale
        index_folded  == get_y(hl.index_tip[2], frame_height)
                           > get_y(hl.index_mcp_y, frame_height) + FOLD_MARGIN * NormScale
        middle_folded == get_y(hl.middle_tip_y, frame_height)
                           > get_y(hl.middle_mcp_y, frame_height) + FOLD_MARGIN * NormScale
        ring_folded   == get_y(hl.ring_tip_y, frame_height)
                           > get_y(hl.ring_mcp_y, frame_height) + FOLD_MARGIN * NormScale
        pinky_folded  == get_y(hl.pinky_tip_y, frame_height)
                           > get_y(hl.pinky_mcp_y, frame_height) + FOLD_MARGIN * NormScale
    IN thumb_up /\ index_folded /\ middle_folded /\ ring_folded /\ pinky_folded

is_thumbs_up(hl, frame_width, frame_height) ==
    LET thumb_up      == get_y(hl.thumb_tip[2], frame_height)
                           < get_y(hl.thumb_ip_y, frame_height) - THUMB_MARGIN * NormScale
        index_folded  == get_y(hl.index_tip[2], frame_height)
                           > get_y(hl.index_mcp_y, frame_height) + FOLD_MARGIN * NormScale
        middle_folded == get_y(hl.middle_tip_y, frame_height)
                           > get_y(hl.middle_mcp_y, frame_height) + FOLD_MARGIN * NormScale
        ring_folded   == get_y(hl.ring_tip_y, frame_height)
                           > get_y(hl.ring_mcp_y, frame_height) + FOLD_MARGIN * NormScale
        pinky_folded  == get_y(hl.pinky_tip_y, frame_height)
                           > get_y(hl.pinky_mcp_y, frame_height) + FOLD_MARGIN * NormScale
    IN thumb_up /\ index_folded /\ middle_folded /\ ring_folded /\ pinky_folded

\* variant of QuitDue: the comparison admits equality
QuitDueAtThreshold(current_time, start_time) ==
    current_time - start_time >= THUMBS_UP_TIME

\* current_time - thumbs_up_start_time > THUMBS_UP_TIME
QuitDue(current_time, start_time) == current_time - start_time > THUMBS_UP_TIME

\* variant of HoldStart: every thumbs-up frame restarts the timer
HoldStartRestarted(active, start_time, current_time) == current_time

\* variant of HoldStart: the start time is not refreshed when a hold begins
HoldStartStale(active, start_time, current_time) == start_time

\* thumbs_up_start_time after the thumbs-up branch
HoldStart(active, start_time, current_time) ==
    IF ~active THEN current_time ELSE start_time

\* variant of ActiveAfter: the else branch does not clear the flag
ActiveSticky(thumbs_up, active) == thumbs_up \/ active

\* thumbs_up_active after the if/else on is_thumbs_up
ActiveAfter(thumbs_up, active) == thumbs_up

\* variant of CursorEnabled: the block runs on every frame with a hand
CursorAlways(active) == TRUE

\* if not thumbs_up_active: the cursor and click block runs
CursorEnabled(active) == ~active

\* variant of Interp: the line through (0.1, 0) and (0.9, S), not clamped
InterpUnclamped(v, S) ==
    (((v - INTERP_LO) * S * (Scale \div Fine)) \div (INTERP_HI - INTERP_LO)) * Fine

\* np.interp(v, [0.1, 0.9], [0, S]) in units of 1/Scale pixel
Interp(v, S) ==
    IF v <= INTERP_LO THEN 0
    ELSE IF v >= INTERP_HI THEN S * Scale
    ELSE (((v - INTERP_LO) * S * (Scale \div Fine)) \div (INTERP_HI - INTERP_LO)) * Fine

\* variant of Smooth: the weights of the old value and the target are exchanged
SmoothSwapped(old, target) ==
    (old * SMOOTHING_NUM + target * (SMOOTHING_DEN - SMOOTHING_NUM)) \div SMOOTHING_DEN

\* old * (1 - MOUSE_SMOOTHING) + target * MOUSE_SMOOTHING
Smooth(old, target) ==
    (old * (SMOOTHING_DEN - SMOOTHING_NUM) + target * SMOOTHING_NUM) \div SMOOTHING_DEN

(* --------------------------- binary64 --------------------------------- *)
\* The interpreter holds last_mouse_x and last_mouse_y as binary64 numbers and
\* rounds every product and sum to the nearest one, ties to even.  The
\* operators below compute exactly that, for numbers that are zero or positive
\* and normal.
\* Natural numbers of any size are sequences of limbs of LimbBits bits, least
\* significant first, without leading zero limbs (zero is <<>>).
LimbBits == 14
Base == Pow(2, LimbBits)

Limb(a, i) == IF i >= 1 /\ i <= Len(a) THEN a[i] ELSE 0

RECURSIVE Trim(_)
Trim(a) == IF a # <<>> /\ a[Len(a)] = 0 THEN Trim(SubSeq(a, 1, Len(a) - 1)) ELSE a

\* the limbs of the number with the digits s (each below 2^31 - Base) plus c
RECURSIVE Carry(_, _)
Carry(s, c) ==
    IF s = <<>> THEN (IF c = 0 THEN <<>> ELSE <<c % Base>> \o Carry(<<>>, c \div Base))
    ELSE <<(s[1] + c) % Base>> \o Carry(Tail(s), (s[1] + c) \div Base)

BigAdd(a, b) ==
    LET n == IF Len(a) > Len(b) THEN Len(a) ELSE Len(b)
    IN Trim(Carry([i \in 1..n |-> Limb(a, i) + Limb(b, i)], 0))

\* a - b for a >= b
RECURSIVE SubFrom(_, _, _, _)
SubFrom(a, b, i, borrow) ==
    IF i > Len(a) THEN <<>>
    ELSE LET d == a[i] - Limb(b, i) - borrow
         IN IF d < 0 THEN <<d + Base>> \o SubFrom(a, b, i + 1, 1)
                     ELSE <<d>> \o SubFrom(a, b, i + 1, 0)
BigSub(a, b) == Trim(SubFrom(a, b, 1, 0))

\* a * b for factors of at most four limbs
RECURSIVE ColSum(_, _, _, _)
ColSum(a, b, k, i) ==
    IF i > Len(a) THEN 0 ELSE a[i] * Limb(b, k + 1 - i) + ColSum(a, b, k, i + 1)
BigMul(a, b) ==
    IF a = <<>> \/ b = <<>> THEN <<>>
    ELSE Trim(Carry([k \in 1..(Len(a) + Len(b) - 1) |-> ColSum(a, b, k, 1)], 0))

\* floor(a / d) for a divisor of one limb
RECURSIVE DivFrom(_, _, _, _)
DivFrom(a, d, i, rem) ==
    IF i = 0 THEN <<>>
    ELSE DivFrom(a, d, i - 1, (rem * Base + a[i]) % d) \o <<(rem * Base + a[i]) \div d>>
BigDivSmall(a, d) == Trim(DivFrom(a, d, Len(a), 0))

RECURSIVE LeqFrom(_, _, _)
LeqFrom(a, b, i) ==
    IF i = 0 THEN TRUE
    ELSE IF a[i] # b[i] THEN a[i] < b[i] ELSE LeqFrom(a, b, i - 1)
BigLeq(a, b) ==
    IF Len(a) # Len(b) THEN Len(a) < Len(b) ELSE LeqFrom(a, b, Len(a))

RECURSIVE IntBitLen(_)
IntBitLen(n) == IF n = 0 THEN 0 ELSE 1 + IntBitLen(n \div 2)
BitLen(a) == IF a = <<>> THEN 0 ELSE (Len(a) - 1) * LimbBits + IntBitLen(a[Len(a)])

\* a * 2^d and floor(a / 2^d)
Shl(a, d) ==
    LET w == d \div LimbBits
        r == d % LimbBits
    IN IF a = <<>> THEN <<>>
       ELSE [i \in 1..w |-> 0] \o Trim(Carry([i \in 1..Len(a) |-> a[i] * Pow(2, r)], 0))
Shr(a, d) ==
    LET w == d \div LimbBits
        r == d % LimbBits
    IN IF Len(a) <= w THEN <<>>
       ELSE Trim([j \in 1..(Len(a) - w) |->
                    (a[j + w] \div Pow(2, r))
                    + (Limb(a, j + w + 1) % Pow(2, r)) * Pow(2, LimbBits - r)])

Bit(a, i) == (Limb(a, i \div LimbBits + 1) \div Pow(2, i % LimbBits)) % 2

\* a / 2^d rounded to the nearest integer, ties to even
RoundShr(a, d) ==
    IF d = 0 THEN a
    ELSE LET q == Shr(a, d)
             sticky == Shl(Shr(a, d - 1), d - 1) # a
         IN IF Bit(a, d - 1) = 1 /\ (sticky \/ Bit(q, 0) = 1) THEN BigAdd(q, <<1>>)
            ELSE q

\* A binary64 number that is zero or positive and normal: [m, e] stands for
\* m * 2^e with m of exactly MantBits bits, or m = <<>> for zero.
MantBits == 53
Zero64 == [m |-> <<>>, e |-> 0]

\* the binary64 nearest to m * 2^e (ties to even)
Round64(m, e) ==
    LET L == BitLen(m)
        r == RoundShr(m, L - MantBits)
    IN IF m = <<>> THEN Zero64
       ELSE IF L <= MantBits THEN [m |-> Shl(m, MantBits - L), e |-> e - (MantBits - L)]
       ELSE IF BitLen(r) > MantBits THEN [m |-> Shr(r, 1), e |-> e + L - MantBits + 1]
       ELSE [m |-> r, e |-> e + L - MantBits]

Mul64(x, y) == Round64(BigMul(x.m, y.m), x.e + y.e)
Add64(x, y) ==
    LET lo == IF x.e < y.e THEN x.e ELSE y.e
    IN IF x.m = <<>> THEN y
       ELSE IF y.m = <<>> THEN x
       ELSE Round64(BigAdd(Shl(x.m, x.e - lo), Shl(y.m, y.e - lo)), lo)
\* x - y for x >= y
Sub64(x, y) ==
    LET lo == IF x.e < y.e THEN x.e ELSE y.e
    IN IF y.m = <<>> THEN x
       ELSE Round64(BigSub(Shl(x.m, x.e - lo), Shl(y.m, y.e - lo)), lo)
Leq64(x, y) ==
    LET lo == IF x.e < y.e THEN x.e ELSE y.e
    IN IF x.m = <<>> THEN TRUE
       ELSE IF y.m = <<>> THEN FALSE
       ELSE BigLeq(Shl(x.m, x.e - lo), Shl(y.m, y.e - lo))
\* float(n) for an integer 0 <= n < 2^31 - Base
FromInt64(n) == Round64(Trim(Carry(<<n>>, 0)), 0)
\* the binary64 nearest to num / den, for a den of one limb that is no power of
\* two (the digits beyond GuardBits bits cannot make a tie)
GuardBits == 112
FromRatio64(num, den) ==
    Round64(BigDivSmall(Shl(Trim(Carry(<<num>>, 0)), GuardBits), den), -GuardBits)

\* MOUSE_SMOOTHING = 0.2
MOUSE_SMOOTHING == FromRatio64(SMOOTHING_NUM, SMOOTHING_DEN)

\* old * (1 - MOUSE_SMOOTHING) + target * MOUSE_SMOOTHING in binary64
Smooth64(old, target) ==
    Add64(Mul64(old, Sub64(FromInt64(1), MOUSE_SMOOTHING)), Mul64(target, MOUSE_SMOOTHING))

\* np.interp returns an end value, which binary64 holds exactly, for a
\* coordinate at or beyond an end of [0.1, 0.9]
IsEnd(v) == v <= INTERP_LO \/ v >= INTERP_HI
Interp64(v, S) == IF v <= INTERP_LO THEN Zero64 ELSE FromInt64(S)

\* variant of CountPinch: the comparison with the timeout is reversed
CountPinchReversed(count, time_since_last_click) ==
    IF time_since_last_click > DOUBLE_CLICK_TIMEOUT THEN count + 1 ELSE 1

\* click_count after the if/else on time_since_last_click
CountPinch(count, time_since_last_click) ==
    IF time_since_last_click < DOUBLE_CLICK_TIMEOUT THEN count + 1 ELSE 1

\* variant of FiresDouble: the double-click needs a third pinch
FiresDoubleAtThree(count) == count = 3

\* if click_count == 2
FiresDouble(count) == count = 2

\* variant of CountAfterFire: the count is not reset after a double-click
CountKept(count) == count

\* click_count at the end of the click logic: reset after a double-click
CountAfterFire(count) == IF FiresDouble(count) THEN 0 ELSE count

\* variant of FiresSingle: a plain else, without the guard on the gap
FiresSingleUnguarded(count, gap) == ~FiresDouble(count)

\* variant of FiresSingle: the guard admits equality
FiresSingleAtGuard(count, time_since_last_click) ==
    count # 2 /\ time_since_last_click >= SINGLE_CLICK_GUARD

\* elif time_since_last_click > 0.3
FiresSingle(count, time_since_last_click) ==
    ~FiresDouble(count) /\ time_since_last_click > SINGLE_CLICK_GUARD

\* cv2.waitKey(5) & 0xFF in (ord('q'), ord('Q'))
KeyQuits(key) == (key % KEY_MASK) \in {ORD_q, ORD_Q}

(* ------------------------------ inputs -------------------------------- *)
NoHand == [none |-> TRUE]

\* a hand pose: thumbUp / folded choose the joints, the two tips are given
Pose(thumbUp, folded, thumb_tip, index_tip) ==
    [thumb_tip    |-> thumb_tip,
     thumb_ip_y   |-> thumb_tip[2] + (IF thumbUp THEN 450 ELSE 90),
     index_tip    |-> index_tip,
     index_mcp_y  |-> index_tip[2] - (IF folded THEN 360 ELSE 180),
     middle_tip_y |-> 5400,
     middle_mcp_y |-> IF folded THEN 4950 ELSE 5850,
     ring_tip_y   |-> 5400,
     ring_mcp_y   |-> IF folded THEN 4950 ELSE 5850,
     pinky_tip_y  |-> 5400,
     pinky_mcp_y  |-> IF folded THEN 4950 ELSE 5175]

\* the thumb tip at (0.3, 0.4), an index tip 20 pixels and one 190 pixels away
ThumbTip == <<2700, 3600>>
NearTip == <<2790, 3780>>
FarTip  == <<3600, 5400>>

\* thumbs-up with and without the tips together, an open hand with and
\* without the tips together
Poses ==
    { Pose(TRUE, TRUE, ThumbTip, NearTip), Pose(TRUE, TRUE, ThumbTip, FarTip),
      Pose(FALSE, FALSE, ThumbTip, NearTip), Pose(FALSE, FALSE, ThumbTip, FarTip) }

\* hands that are no thumbs-up, the index tip at offsets from the thumb tip that
\* put the pixel distance below, at and above CLICK_DISTANCE; and one thumbs-up
TipOffsetsX == {-207, 0, 216, 279, 288, 351, 360}
TipOffsetsY == {-495, 0, 378, 495, 504, 621, 630}
PinchPoses ==
    { Pose(FALSE, FALSE, t, <<t[1] + dx, t[2] + dy>>) :
        t \in {ThumbTip, <<4500, 4500>>}, dx \in TipOffsetsX, dy \in TipOffsetsY }
    \cup { Pose(TRUE, TRUE, ThumbTip, NearTip) }

\* hands around the margins of is_thumbs_up.  ThumbRises: thumb_ip.y minus
\* thumb_tip.y, the thumb tip below the joint, and 9.92, 10, 10.08 and 36
\* pixels above it.  FingerDrops: a finger's tip.y minus its mcp.y, 19.92, 20
\* and 20.08 pixels
ThumbRises == {-125, 124, 125, 126, 450}
FingerDrops == {249, 250, 251}
ThumbPoses ==
    { [thumb_tip    |-> ThumbTip,
       thumb_ip_y   |-> ThumbTip[2] + r,
       index_tip    |-> FarTip,
       index_mcp_y  |-> FarTip[2] - i,
       middle_tip_y |-> 5400,
       middle_mcp_y |-> 5400 - m,
       ring_tip_y   |-> 5400,
       ring_mcp_y   |-> 5400 - g,
       pinky_tip_y  |-> 5400,
       pinky_mcp_y  |-> 5400 - p] :
        r \in ThumbRises, i \in FingerDrops, m \in FingerDrops,
        g \in FingerDrops, p \in FingerDrops }

\* hands that are no thumbs-up and no pinch, the thumb tip at coordinates
\* outside the frame, at 0, at 0.1, 0.125, 0.5, 0.875 and 0.9, at 1 and beyond
\* it; and one thumbs-up
TipCoords == {-450, 0, 900, 1125, 4500, 7875, 8100, 9000, 9450}
TargetPoses ==
    { Pose(FALSE, FALSE, <<x, y>>, <<x, y + 1800>>) : x \in TipCoords, y \in TipCoords }
    \cup { Pose(TRUE, TRUE, ThumbTip, NearTip) }

\* a hand that is no thumbs-up and no pinch, its thumb tip at (0.95, 0.95), for
\* which the target is the bottom right corner of the screen; and one thumbs-up
DoublePoses ==
    { Pose(FALSE, FALSE, <<8550, 8550>>, <<8550, 6750>>),
      Pose(TRUE, TRUE, ThumbTip, NearTip) }

\* the thumbs-up hands of Poses
ThumbsUpPoses ==
    { Pose(TRUE, TRUE, ThumbTip, NearTip), Pose(TRUE, TRUE, ThumbTip, FarTip) }

\* raw results of cv2.waitKey(5): no key, q, Q, x, q with a high bit set
KeyCodes == {-1, 113, 81, 120, 369}

\* tenths of a second between consecutive frames, and keys, in SpecPinch,
\* SpecThumb, SpecTarget and SpecDouble
PinchGaps == {21}
PinchKeys == {-1, 113}
\* tenths of a second between consecutive frames: around THUMBS_UP_TIME
QuitGaps == {5, 10, 20, 21}
\* results of cv2.waitKey(5) while neither q nor Q is pressed: no key, x
QuietKeys == {-1, 120}
\* ... and around DOUBLE_CLICK_TIMEOUT
ClickGaps == {1, 3, 4}

(* ------------------------------- state -------------------------------- *)
VARIABLES
    pc,                    \* "loop" | "returned"
    now,                   \* current_time of the latest frame
    hand,                  \* the latest frame's hand_landmarks, or NoHand
    out,                   \* actions emitted by the latest frame, in order
    last_click_time, click_count,
    last_mouse_x, last_mouse_y,   \* in exact arithmetic, units of 1/Scale pixel
    cursor64,              \* <<last_mouse_x, last_mouse_y>> as the binary64 numbers
                           \* the interpreter holds; <<>> once a target was no
                           \* end value of np.interp
    thumbs_up_active, thumbs_up_start_time,
    cap_released, windows_destroyed,
    exit_path,             \* how the loop ended
    moves,                 \* number of cursor updates so far
    pinch_log,             \* one entry per frame that ran the click logic
    hold_first,            \* time of the frame on which the current hold began
    hold_breaks,           \* kinds of non-thumbs-up frames seen since then
    interrupted,           \* some hold was ended by a hand that was no thumbs-up
    quit_count,            \* number of gesture terminations
    target                 \* <<target_x, target_y>> of the latest frame, <<>> if
                           \* the frame computed none

prog == <<last_click_time, click_count, last_mouse_x, last_mouse_y, cursor64,
          thumbs_up_active, thumbs_up_start_time>>
res == <<cap_released, windows_destroyed>>
hist == <<moves, pinch_log, hold_first, hold_breaks, interrupted, quit_count,
          target>>
vars == <<pc, now, hand, out, prog, res, exit_path, hist>>

Init ==
    /\ pc = "loop"
    /\ now = ClockStart
    /\ hand = NoHand
    /\ out = <<>>
    /\ last_click_time = 0
    /\ click_count = 0
    /\ last_mouse_x = (screen_w \div 2) * Scale
    /\ last_mouse_y = (screen_h \div 2) * Scale
    /\ cursor64 = <<FromInt64(screen_w \div 2), FromInt64(screen_h \div 2)>>
    /\ thumbs_up_active = FALSE
    /\ thumbs_up_start_time = 0
    /\ cap_released = FALSE
    /\ windows_destroyed = FALSE
    /\ exit_path = "none"
    /\ moves = 0
    /\ pinch_log = <<>>
    /\ hold_first = 0
    /\ hold_breaks = {}
    /\ interrupted = FALSE
    /\ quit_count = 0
    /\ target = <<>>

(* ------------------------------ actions ------------------------------- *)
\* cap.release(); cv2.destroyAllWindows() after the loop
AfterLoop == [cap_released |-> TRUE, windows_destroyed |-> TRUE]

\* variant of BeforeReturn: the gesture path returns without releasing the camera
ReturnWithoutRelease == [cap_released |-> FALSE, windows_destroyed |-> TRUE]

\* cap.release(); cv2.destroyAllWindows() before the return of the quit gesture
BeforeReturn == [cap_released |-> TRUE, windows_destroyed |-> TRUE]

\* the loop has ended by its condition or a break: clean up and return
LeaveLoop(path) ==
    /\ pc' = "returned"
    /\ exit_path' = path
    /\ cap_released' = AfterLoop.cap_released
    /\ windows_destroyed' = AfterLoop.windows_destroyed

\* while cap.isOpened() is false
CameraClosed ==
    /\ pc = "loop"
    /\ LeaveLoop("closed")
    /\ UNCHANGED <<now, hand, out, prog, hist>>

\* variant of ReadFail: the failed read is skipped and the loop goes on
ReadFailContinues ==
    /\ pc = "loop"
    /\ exit_path = "none"
    /\ exit_path' = "readfail"
    /\ UNCHANGED <<pc, now, hand, out, prog, res, hist>>

\* ret is false: break
ReadFail ==
    /\ pc = "loop"
    /\ LeaveLoop("readfail")
    /\ UNCHANGED <<now, hand, out, prog, hist>>

\* the end of an iteration: imshow, waitKey, break on q/Q
EndOfFrame(key) ==
    IF KeyQuits(key) THEN LeaveLoop("key")
    ELSE pc' = "loop" /\ UNCHANGED <<res, exit_path>>

\* variant of NoHandFrame: a frame without a hand ends the hold
NoHandFrameResets(dt, key) ==
    /\ pc = "loop"
    /\ now' = now + dt
    /\ hand' = NoHand
    /\ out' = <<>>
    /\ thumbs_up_active' = FALSE
    /\ hold_breaks' = {}
    /\ target' = <<>>
    /\ EndOfFrame(key)
    /\ UNCHANGED <<last_click_time, click_count, last_mouse_x, last_mouse_y,
                   cursor64, thumbs_up_start_time, moves, pinch_log, hold_first,
                   interrupted, quit_count>>

\* an iteration whose frame has no hand
NoHandFrame(dt, key) ==
    /\ pc = "loop"
    /\ now' = now + dt
    /\ hand' = NoHand
    /\ out' = <<>>
    /\ UNCHANGED <<prog, moves, pinch_log, hold_first, interrupted, quit_count>>
    /\ hold_breaks' = IF thumbs_up_active' THEN hold_breaks \cup {"nohand"} ELSE {}
    /\ target' = <<>>
    /\ EndOfFrame(key)

\* the gesture-confirmed quit: release, destroy, return
GestureQuit(current_time, hl) ==
    /\ now' = current_time
    /\ hand' = hl
    /\ out' = <<"quit">>
    /\ cap_released' = BeforeReturn.cap_released
    /\ windows_destroyed' = BeforeReturn.windows_destroyed
    /\ pc' = "returned"
    /\ exit_path' = "gesture"
    /\ quit_count' = quit_count + 1
    /\ target' = <<>>
    /\ UNCHANGED <<prog, moves, pinch_log, hold_first, hold_breaks, interrupted>>

\* the cursor update and the click logic of a frame
CursorAndClick(current_time, hl) ==
    LET thumb_pt == <<ToPixel(hl.thumb_tip[1], frame_w), ToPixel(hl.thumb_tip[2], frame_h)>>
        index_pt == <<ToPixel(hl.index_tip[1], frame_w), ToPixel(hl.index_tip[2], frame_h)>>
        distance == calculate_distance(thumb_pt, index_pt)
        target_x == Interp(hl.thumb_tip[1], screen_w)
        target_y == Interp(hl.thumb_tip[2], screen_h)
        time_since_last_click == current_time - last_click_time
        counted == CountPinch(click_count, time_since_last_click)
        fired == IF FiresDouble(counted) THEN "double"
                 ELSE IF FiresSingle(counted, time_since_last_click) THEN "click"
                 ELSE "nothing"
        final == CountAfterFire(counted)
        cmp == IF time_since_last_click < DOUBLE_CLICK_TIMEOUT THEN -1
               ELSE IF time_since_last_click = DOUBLE_CLICK_TIMEOUT THEN 0 ELSE 1
    IN /\ last_mouse_x' = Smooth(last_mouse_x, target_x)
       /\ last_mouse_y' = Smooth(last_mouse_y, target_y)
       /\ cursor64' =
             IF cursor64 # <<>> /\ IsEnd(hl.thumb_tip[1]) /\ IsEnd(hl.thumb_tip[2])
             THEN <<Smooth64(cursor64[1], Interp64(hl.thumb_tip[1], screen_w)),
                    Smooth64(cursor64[2], Interp64(hl.thumb_tip[2], screen_h))>>
             ELSE <<>>
       /\ moves' = moves + 1
       /\ target' = <<target_x, target_y>>
       /\ IF PinchEngaged(distance)
          THEN /\ last_click_time' = current_time
               /\ click_count' = final
               /\ out' = IF fired = "nothing" THEN <<"move">> ELSE <<"move", fired>>
               /\ pinch_log' = Append(pinch_log,
                                      [fired |-> fired, cmp |-> cmp, count |-> counted])
          ELSE /\ out' = <<"move">>
               /\ UNCHANGED <<last_click_time, click_count, pinch_log>>

\* an iteration whose frame has one hand
HandFrame(dt, hl, key) ==
    LET current_time == now + dt
        thumbs_up == is_thumbs_up(hl, frame_w, frame_h)
    IN /\ pc = "loop"
       /\ IF thumbs_up /\ thumbs_up_active /\ QuitDue(current_time, thumbs_up_start_time)
          THEN GestureQuit(current_time, hl)
          ELSE /\ now' = current_time
               /\ hand' = hl
               /\ thumbs_up_active' = ActiveAfter(thumbs_up, thumbs_up_active)
               /\ thumbs_up_start_time' =
                     IF thumbs_up
                     THEN HoldStart(thumbs_up_active, thumbs_up_start_time, current_time)
                     ELSE thumbs_up_start_time
               /\ IF CursorEnabled(thumbs_up_active')
                  THEN CursorAndClick(current_time, hl)
                  ELSE /\ out' = <<>>
                       /\ target' = <<>>
                       /\ UNCHANGED <<last_click_time, click_count, last_mouse_x,
                                      last_mouse_y, cursor64, moves, pinch_log>>
               /\ hold_first' = IF thumbs_up /\ ~thumbs_up_active THEN current_time
                                                                  ELSE hold_first
               /\ hold_breaks' =
                     IF thumbs_up
                     THEN (IF ~thumbs_up_active THEN {} ELSE hold_breaks)
                     ELSE (IF thumbs_up_active' THEN hold_breaks \cup {"other"} ELSE {})
               /\ interrupted' = (interrupted \/ (thumbs_up_active /\ ~thumbs_up))
               /\ EndOfFrame(key)
               /\ UNCHANGED quit_count

\* the bounds of a run: no frame after horizon, at most cap cursor updates
Within(horizon, cap) == now' <= horizon /\ moves' <= cap

Next ==
    \/ CameraClosed
    \/ ReadFail
    \/ \E dt \in QuitGaps, key \in KeyCodes :
          NoHandFrame(dt, key) /\ Within(QuitHorizon, QuitMoves)
    \/ \E dt \in QuitGaps, hl \in Poses, key \in KeyCodes :
          HandFrame(dt, hl, key) /\ Within(QuitHorizon, QuitMoves)

Spec == Init /\ [][Next]_vars

NextClick ==
    \/ CameraClosed
    \/ ReadFail
    \/ \E dt \in ClickGaps, key \in KeyCodes :
          NoHandFrame(dt, key) /\ Within(ClickHorizon, MaxMoves)
    \/ \E dt \in ClickGaps, hl \in Poses, key \in KeyCodes :
          HandFrame(dt, hl, key) /\ Within(ClickHorizon, MaxMoves)

SpecClick == Init /\ [][NextClick]_vars

NextPinch ==
    \/ CameraClosed
    \/ ReadFail
    \/ \E dt \in PinchGaps, key \in PinchKeys :
          NoHandFrame(dt, key) /\ Within(PinchHorizon, PinchMoves)
    \/ \E dt \in PinchGaps, hl \in PinchPoses, key \in PinchKeys :
          HandFrame(dt, hl, key) /\ Within(PinchHorizon, PinchMoves)

SpecPinch == Init /\ [][NextPinch]_vars

\* the hands of ThumbPoses, each on a frame of its own
NextThumb ==
    \/ CameraClosed
    \/ ReadFail
    \/ \E dt \in PinchGaps, key \in PinchKeys :
          NoHandFrame(dt, key) /\ Within(PinchHorizon, PinchMoves)
    \/ \E dt \in PinchGaps, hl \in ThumbPoses, key \in PinchKeys :
          HandFrame(dt, hl, key) /\ Within(PinchHorizon, PinchMoves)

SpecThumb == Init /\ [][NextThumb]_vars

\* the hands of TargetPoses, each on a frame of its own
NextTarget ==
    \/ CameraClosed
    \/ ReadFail
    \/ \E dt \in PinchGaps, key \in PinchKeys :
          NoHandFrame(dt, key) /\ Within(PinchHorizon, PinchMoves)
    \/ \E dt \in PinchGaps, hl \in TargetPoses, key \in PinchKeys :
          HandFrame(dt, hl, key) /\ Within(PinchHorizon, PinchMoves)

SpecTarget == Init /\ [][NextTarget]_vars

\* a run in which at most n frames did not update the cursor
FewIdle(dt, n) == now' - ClockStart <= (moves' + n) * dt

\* long runs with the thumb held at the bottom right
NextDouble ==
    \/ CameraClosed
    \/ ReadFail
    \/ \E dt \in PinchGaps, key \in PinchKeys :
          /\ NoHandFrame(dt, key)
          /\ Within(DoubleHorizon, DoubleMoves) /\ FewIdle(dt, DoubleIdle)
    \/ \E dt \in PinchGaps, hl \in DoublePoses, key \in PinchKeys :
          /\ HandFrame(dt, hl, key)
          /\ Within(DoubleHorizon, DoubleMoves) /\ FewIdle(dt, DoubleIdle)

SpecDouble == Init /\ [][NextDouble]_vars

\* a frame with a thumbs-up hand while neither q nor Q is pressed
ThumbsUpFrame ==
    \E dt \in QuitGaps, hl \in ThumbsUpPoses, key \in QuietKeys :
        HandFrame(dt, hl, key) /\ now' <= LiveEnd

\* runs whose frames, from time LiveFree on, have a thumbs-up hand or no hand,
\* with the camera delivering and neither q nor Q pressed
NextLive ==
    \/ CameraClosed /\ now <= LiveFree
    \/ ReadFail /\ now <= LiveFree
    \/ \E dt \in QuitGaps, key \in KeyCodes :
          NoHandFrame(dt, key) /\ Within(LiveFree, QuitMoves)
    \/ \E dt \in QuitGaps, hl \in Poses, key \in KeyCodes :
          HandFrame(dt, hl, key) /\ Within(LiveFree, QuitMoves)
    \/ \E dt \in QuitGaps, key \in QuietKeys :
          NoHandFrame(dt, key) /\ now' <= LiveIdle
    \/ ThumbsUpFrame

\* the loop runs for as long as cap.isOpened() holds, and frames with a
\* thumbs-up hand keep arriving: such a frame is always possible while the
\* loop runs, and weak fairness makes it happen
SpecLive == Init /\ [][NextLive]_vars /\ WF_vars(ThumbsUpFrame)

(* ------------------------------ claims -------------------------------- *)
\* a step that processes a frame
FrameStep == now' # now

\* a step that processes a frame whose hand is classified thumbs-up
ThumbsUpStep ==
    FrameStep /\ hand' # NoHand /\ is_thumbs_up(hand', frame_w, frame_h)

\* a step that processes a frame whose hand is not classified thumbs-up
OtherHandStep ==
    FrameStep /\ hand' # NoHand /\ ~is_thumbs_up(hand', frame_w, frame_h)

\* the step requests termination by the gesture
QuitsNow == out' = <<"quit">> /\ pc' = "returned" /\ exit_path' = "gesture"

\* the squared pixel distance between the thumb tip and the index tip of a hand
TipDistSq(hl) ==
    LET dx == ToPixel(hl.index_tip[1], frame_w) - ToPixel(hl.thumb_tip[1], frame_w)
        dy == ToPixel(hl.index_tip[2], frame_h) - ToPixel(hl.thumb_tip[2], frame_h)
    IN dx * dx + dy * dy

\* the click actions among the emitted actions
Clicks(s) == SelectSeq(s, LAMBDA a : a \in {"click", "double"})

\* C1 as stated: on every thumbs-up frame of an active hold whose elapsed time
\* current_time - start_time is at least 2.0 s (2.0 s included), the program
\* requests termination on that frame.
C1_AsStated ==
    [][(ThumbsUpStep /\ thumbs_up_active
          /\ now' - thumbs_up_start_time >= THUMBS_UP_TIME) => QuitsNow]_vars

\* C1 amended: on every thumbs-up frame of an active hold the program requests
\* termination on that frame if and only if the elapsed time is strictly greater
\* than 2.0 s; at exactly 2.0 s the hold goes on.
C1_HoldingToConfirmed ==
    [][(ThumbsUpStep /\ thumbs_up_active) =>
          /\ (now' - thumbs_up_start_time > THUMBS_UP_TIME) <=> QuitsNow
          /\ (now' - thumbs_up_start_time <= THUMBS_UP_TIME) =>
                (out' = <<>> /\ thumbs_up_active' /\ UNCHANGED thumbs_up_start_time)]_vars

\* C1 witness: a hold was confirmed on the first frame past the threshold
C1_Witness ==
    /\ out = <<"quit">>
    /\ thumbs_up_active
    /\ now - thumbs_up_start_time = THUMBS_UP_TIME + 1

\* C2: a gesture termination happens at most once, only on a thumbs-up frame at
\* least 2.0 s after the start_time that the first frame of the current hold
\* recorded (so never on that first frame), and nothing happens after it.
C2_State ==
    /\ quit_count <= 1
    /\ (quit_count = 1) <=> (exit_path = "gesture")
    /\ exit_path = "gesture" =>
          /\ pc = "returned"
          /\ out = <<"quit">>
          /\ hand # NoHand /\ is_thumbs_up(hand, frame_w, frame_h)
          /\ thumbs_up_start_time = hold_first
          /\ now # hold_first
          /\ now - hold_first >= THUMBS_UP_TIME

C2_TerminationOnceNotEarly ==
    /\ []C2_State
    /\ [][pc = "returned" => UNCHANGED vars]_vars
    /\ [][(out' = <<"quit">> /\ FrameStep) => (pc' = "returned" /\ quit_count' = 1)]_vars

\* C2 witness: the run has ended by the gesture
C2_Witness == pc = "returned" /\ exit_path = "gesture" /\ quit_count = 1

\* C3: a hand that is not a thumbs-up makes the quit-confirm state inactive; the
\* next thumbs-up frame starts a new hold whose start_time is that frame's own
\* time; a termination comes more than 2.0 s after the start of the hold it ends,
\* so the time held before an interruption never counts.
C3_RestartAfterInterruption ==
    /\ [][OtherHandStep => ~thumbs_up_active']_vars
    /\ [][(ThumbsUpStep /\ ~thumbs_up_active) =>
             (thumbs_up_active' /\ thumbs_up_start_time' = now' /\ out' = <<>>)]_vars
    /\ [][(FrameStep /\ out' = <<"quit">>) =>
             (now' - hold_first > THUMBS_UP_TIME /\ hold_first >= thumbs_up_start_time)]_vars

\* C3 witness: a hold was interrupted, a later hold was confirmed
C3_Witness == interrupted /\ out = <<"quit">> /\ moves >= 1

\* C4 as stated: when the program terminates by gesture, no frame since the
\* frame that started the hold lacked a thumbs-up classification, neither a
\* frame with another hand nor a frame with no hand.
C4_AsStated == exit_path = "gesture" => hold_breaks = {}

\* C4 amended: when the program terminates by gesture, every frame with a hand
\* since the frame that started the hold was classified thumbs-up; frames with
\* no hand may lie in between, they leave the hold as it is.
C4_ContinuousHold == exit_path = "gesture" => "other" \notin hold_breaks

\* C4 witness: a hold with a frame without a hand in it was confirmed
C4_Witness == exit_path = "gesture" /\ hold_breaks = {"nohand"}

\* C5: a frame whose hand is classified thumbs-up emits no cursor move, click or
\* double-click and leaves the smoothed cursor position, last_click_time and
\* click_count unchanged, also when the tips are within the pinch distance.
C5_SuspendedDuringHold ==
    [][ThumbsUpStep =>
          /\ out' \in {<<>>, <<"quit">>}
          /\ UNCHANGED <<last_mouse_x, last_mouse_y, last_click_time, click_count>>]_vars

\* C5 witness: the first frame of a hold, with the tips within the pinch distance
C5_Witness ==
    /\ hand # NoHand
    /\ is_thumbs_up(hand, frame_w, frame_h)
    /\ TipDistSq(hand) < CLICK_DISTANCE * CLICK_DISTANCE
    /\ thumbs_up_active
    /\ thumbs_up_start_time = now
    /\ out = <<>>

\* C6: a frame without a hand emits nothing and leaves the cursor state, the
\* click state and the quit-confirm state (flag and start_time) unchanged.
C6_NoHandNoOp ==
    [][(FrameStep /\ hand' = NoHand) => (out' = <<>> /\ UNCHANGED prog)]_vars

\* C6 witness: an active hold after a frame without a hand
C6_Witness ==
    /\ hand = NoHand
    /\ thumbs_up_active
    /\ now > thumbs_up_start_time
    /\ pc = "loop"

\* C9: however the loop ends (camera closed or read failure, q/Q, confirmed
\* gesture), the camera is released and the windows are destroyed when main
\* has returned, and they are not released while the loop runs.
C9_ResourcesReleased ==
    /\ pc = "returned" =>
          /\ exit_path \in {"closed", "readfail", "key", "gesture"}
          /\ cap_released /\ windows_destroyed
    /\ pc = "loop" => (exit_path = "none" /\ ~cap_released /\ ~windows_destroyed)

\* C9 witness: main has returned from the gesture path
C9_Witness == pc = "returned" /\ exit_path = "gesture" /\ cap_released

\* a step that processes a frame with a hand that is no thumbs-up and whose tips
\* are less than CLICK_DISTANCE pixels apart
PinchStep == OtherHandStep /\ TipDistSq(hand') < CLICK_DISTANCE * CLICK_DISTANCE

\* what the pinch-engaged frames so far fired, in order
FiredSoFar == [i \in 1..Len(pinch_log) |-> pinch_log[i].fired]

\* C7: the first pinch-engaged frame of a run fires exactly one single click and
\* no double-click; a second one less than 0.3 s later fires exactly one
\* double-click, no single click, and leaves click_count at 0; a third one more
\* than 0.3 s after that second one fires exactly one single click and leaves
\* click_count at 1.
C7_DebounceSequence ==
    [][PinchStep =>
          /\ Len(pinch_log) = 0 =>
                (Clicks(out') = <<"click">> /\ click_count' = 1)
          /\ (Len(pinch_log) = 1 /\ now' - last_click_time < DOUBLE_CLICK_TIMEOUT) =>
                (Clicks(out') = <<"double">> /\ click_count' = 0)
          /\ (Len(pinch_log) = 2 /\ pinch_log[2].cmp = -1
                /\ now' - last_click_time > DOUBLE_CLICK_TIMEOUT) =>
                (Clicks(out') = <<"click">> /\ click_count' = 1)
          /\ last_click_time' = now'
          /\ Len(pinch_log') = Len(pinch_log) + 1]_vars

\* C7 witness: three pinch-engaged frames fired click, double-click, click
C7_Witness ==
    /\ FiredSoFar = <<"click", "double", "click">>
    /\ out = <<"move", "click">>
    /\ click_count = 1
    /\ last_click_time = now

\* C8 as stated: whenever a pinch-engaged frame fires a double-click, the
\* pinch-engaged frame before it fired a single click.
C8_AsStated ==
    \A i \in 1..Len(pinch_log) :
        pinch_log[i].fired = "double" => (i > 1 /\ pinch_log[i - 1].fired = "click")

\* C8 amended: whenever a pinch-engaged frame fires a double-click, the
\* pinch-engaged frame before it raised click_count to 1, and it fired a single
\* click if and only if it came more than 0.3 s after the pinch-engaged frame
\* before it (or was the first one of the run); otherwise it fired nothing.
C8_DoubleAfterCountOne ==
    \A i \in 1..Len(pinch_log) :
        pinch_log[i].fired = "double" =>
            /\ i > 1
            /\ pinch_log[i].cmp = -1
            /\ pinch_log[i - 1].count = 1
            /\ pinch_log[i - 1].fired \in {"click", "nothing"}
            /\ (pinch_log[i - 1].fired = "click") <=> (pinch_log[i - 1].cmp = 1)

\* C8 witness: a double-click on top of a pinch-engaged frame that fired nothing
C8_Witness ==
    \E i \in 2..Len(pinch_log) :
        pinch_log[i].fired = "double" /\ pinch_log[i - 1].fired = "nothing"

\* C10: on a frame that reaches the click logic, the pinch is engaged if and only
\* if the thumb tip and the index tip are strictly less than 50 pixels apart; at
\* exactly 50 pixels it is not engaged.
C10_PinchStrictThreshold ==
    [][OtherHandStep =>
          /\ (last_click_time' = now') <=>
                (TipDistSq(hand') < CLICK_DISTANCE * CLICK_DISTANCE)
          /\ (TipDistSq(hand') >= CLICK_DISTANCE * CLICK_DISTANCE) =>
                (out' = <<"move">> /\ UNCHANGED <<last_click_time, click_count>>)]_vars

\* C10 witness: the tips exactly 50 pixels apart, the pinch not engaged
C10_Witness ==
    /\ hand # NoHand
    /\ ~is_thumbs_up(hand, frame_w, frame_h)
    /\ TipDistSq(hand) = CLICK_DISTANCE * CLICK_DISTANCE
    /\ out = <<"move">>
    /\ last_click_time # now

\* the five conditions of the thumbs-up pose, in pixels of the frame: the
\* thumb tip more than THUMB_MARGIN above its IP joint, each other finger's
\* tip more than FOLD_MARGIN below its MCP joint
ThumbRaisedPx(hl) ==
    (hl.thumb_ip_y - hl.thumb_tip[2]) * frame_h > THUMB_MARGIN * NormScale
FingerFoldedPx(tip_y, mcp_y) ==
    (tip_y - mcp_y) * frame_h > FOLD_MARGIN * NormScale
FiveConditions(hl) ==
    /\ ThumbRaisedPx(hl)
    /\ FingerFoldedPx(hl.index_tip[2], hl.index_mcp_y)
    /\ FingerFoldedPx(hl.middle_tip_y, hl.middle_mcp_y)
    /\ FingerFoldedPx(hl.ring_tip_y, hl.ring_mcp_y)
    /\ FingerFoldedPx(hl.pinky_tip_y, hl.pinky_mcp_y)

\* C11: a frame's hand is treated as thumbs-up (the hold is active after the
\* frame) exactly when all five strict conditions hold for that frame's
\* landmarks, whatever the state before the frame; a margin met with equality
\* makes the hand no thumbs-up.
C11_ThumbsUpClassification ==
    [][(FrameStep /\ hand' # NoHand)
         => (thumbs_up_active' <=> FiveConditions(hand'))]_vars

\* a frame whose thumb is exactly THUMB_MARGIN pixels above its joint and whose
\* four fingers are folded was processed as no thumbs-up: the cursor moved
C11_Witness ==
    /\ hand # NoHand
    /\ (hand.thumb_ip_y - hand.thumb_tip[2]) * frame_h = THUMB_MARGIN * NormScale
    /\ FingerFoldedPx(hand.index_tip[2], hand.index_mcp_y)
    /\ FingerFoldedPx(hand.middle_tip_y, hand.middle_mcp_y)
    /\ FingerFoldedPx(hand.ring_tip_y, hand.ring_mcp_y)
    /\ FingerFoldedPx(hand.pinky_tip_y, hand.pinky_mcp_y)
    /\ ~thumbs_up_active
    /\ out = <<"move">>

\* t, in units of 1/Scale pixel, is the target the claim gives for the
\* normalised coordinate v on an axis of extent S: 0 up to 0.1, S from 0.9 on,
\* (v - 0.1) / 0.8 * S in between (compared in quarter pixels times NormScale)
TargetAsClaimed(t, v, S) ==
    /\ v * 10 <= NormScale => t = 0
    /\ v * 10 >= 9 * NormScale => t = S * Scale
    /\ (NormScale < v * 10 /\ v * 10 < 9 * NormScale) =>
          /\ t % Fine = 0
          /\ (t \div Fine) * 8 * NormScale = (v * 10 - NormScale) * S * (Scale \div Fine)
    /\ v * 2 = NormScale => t * 2 = S * Scale
    /\ 0 <= t /\ t <= S * Scale

\* C12: whenever a frame computes a cursor target, the target on each axis is
\* 0 for a thumb coordinate up to 0.1, the screen extent from 0.9 on, and
\* (v - 0.1) / 0.8 times the extent in between; it is never outside the screen.
C12_TargetMapping ==
    target # <<>> =>
        /\ hand # NoHand
        /\ TargetAsClaimed(target[1], hand.thumb_tip[1], screen_w)
        /\ TargetAsClaimed(target[2], hand.thumb_tip[2], screen_h)

\* a frame whose thumb was left of the frame horizontally and at 0.5 vertically
\* got the target (0, screen_h / 2)
C12_Witness ==
    /\ target = <<0, (screen_h \div 2) * Scale>>
    /\ hand # NoHand
    /\ hand.thumb_tip = <<-450, 4500>>
    /\ out = <<"move">>

\* one smoothing step from old to new towards target t: new = 0.8 old + 0.2 t,
\* the distance to the target is multiplied by 0.8 and does not grow, and new
\* is on the same side of the target as old
SmoothingStep(old, new, t) ==
    /\ 5 * new = 4 * old + t
    /\ 5 * Abs(new - t) = 4 * Abs(old - t)
    /\ Abs(new - t) <= Abs(old - t)
    /\ (old >= t => new >= t) /\ (old <= t => new <= t)

\* after k = moves updates towards the same target t, starting from start,
\* the smoothed value is t + 0.8^k (start - t)
AfterMoves(value, start, t) ==
    value - t = ((start - t) \div Pow(5, moves)) * Pow(4, moves)

C14_ClickLogic ==
    [][PinchStep =>
          LET gap == now' - last_click_time
              counted == IF gap < DOUBLE_CLICK_TIMEOUT THEN click_count + 1 ELSE 1
          IN /\ last_click_time' = now'
             /\ Len(pinch_log') = Len(pinch_log) + 1
             /\ pinch_log'[Len(pinch_log')].count = counted
             /\ IF counted = 2
                THEN Clicks(out') = <<"double">> /\ click_count' = 0
                ELSE /\ click_count' = counted
                     /\ gap > SINGLE_CLICK_GUARD => Clicks(out') = <<"click">>
                     /\ gap <= SINGLE_CLICK_GUARD => Clicks(out') = <<>>]_vars

\* a pinch-engaged frame exactly 0.3 s after the previous one, which had fired a
\* single click: click_count is 1 again and nothing fired
C14_Witness ==
    /\ Len(pinch_log) >= 2
    /\ pinch_log[Len(pinch_log)] = [fired |-> "nothing", cmp |-> 0, count |-> 1]
    /\ pinch_log[Len(pinch_log) - 1].fired = "click"
    /\ click_count = 1
    /\ last_click_time = now
    /\ out = <<"move">>

\* C15: a failed frame read ends the loop on that iteration: the step changes
\* no cursor, click or quit-confirm state, emits no cursor move, click or
\* gesture termination, releases the camera and closes the windows, and no
\* step of the program follows it (no further read, nothing emitted later).
C15_ReadFailureEndsLoop ==
    [][/\ exit_path' = "readfail" =>
             /\ pc' = "returned"
             /\ cap_released' /\ windows_destroyed'
             /\ UNCHANGED <<now, hand, out, prog, moves, pinch_log, quit_count>>
       /\ exit_path # "readfail"]_vars

\* a read failed in the middle of a hold, after cursor updates and a click
C15_Witness ==
    /\ exit_path = "readfail"
    /\ pc = "returned"
    /\ thumbs_up_active
    /\ click_count = 1
    /\ moves >= 1
    /\ quit_count = 0

\* C16: at the end of every frame click_count is 0 or 1; inside a frame it
\* never exceeds 2, and a count of 2 fires the double-click and is reset within
\* the same frame, so that 2 never survives to the next frame.
C16_ClickCountRange ==
    /\ click_count \in {0, 1}
    /\ \A i \in 1..Len(pinch_log) :
          /\ pinch_log[i].count \in {1, 2}
          /\ pinch_log[i].count = 2 <=> pinch_log[i].fired = "double"

\* the frame just processed raised click_count to 2 and left it at 0
C16_Witness ==
    /\ Len(pinch_log) >= 2
    /\ pinch_log[Len(pinch_log)].count = 2
    /\ out = <<"move", "double">>
    /\ last_click_time = now
    /\ click_count = 0

\* C17: in a streak of pinch-engaged frames outside quit-confirm mode, each
\* less than 0.3 s after the one before, that starts with a frame firing a
\* single click: no later frame of the streak fires a single click, the
\* second, fourth, ... frames fire a double-click and the third, fifth, ...
\* fire nothing, so that no two frames in a row fire a double-click.
C17_HeldPinchAlternates ==
    \A i \in 1..Len(pinch_log) : \A j \in i..Len(pinch_log) :
        (/\ pinch_log[i].fired = "click"
         /\ \A k \in (i + 1)..j : pinch_log[k].cmp = -1)
        => \A k \in (i + 1)..j :
              /\ pinch_log[k].fired # "click"
              /\ pinch_log[k].fired = IF (k - i) % 2 = 1 THEN "double" ELSE "nothing"
              /\ ~(pinch_log[k].fired = "double" /\ pinch_log[k - 1].fired = "double")

\* five frames in a row, 0.1 s apart, with the pinch held from the first one on
C17_Witness ==
    /\ FiredSoFar = <<"click", "double", "nothing", "double", "nothing">>
    /\ \A k \in 2..5 : pinch_log[k].cmp = -1
    /\ moves = 5
    /\ now = ClockStart + 5
    /\ out = <<"move">>

\* C18 as stated: in every reachable state 0 <= last_mouse_x <= screen_w and
\* 0 <= last_mouse_y <= screen_h, and so is every position the cursor is moved
\* to (the move command carries last_mouse_x and last_mouse_y).
C18_AsStated ==
    /\ 0 <= last_mouse_x /\ last_mouse_x <= screen_w * Scale
    /\ 0 <= last_mouse_y /\ last_mouse_y <= screen_h * Scale
    /\ cursor64 # <<>> =>
          /\ Leq64(Zero64, cursor64[1]) /\ Leq64(cursor64[1], FromInt64(screen_w))
          /\ Leq64(Zero64, cursor64[2]) /\ Leq64(cursor64[2], FromInt64(screen_h))

\* C19: if from some frame on (here: after time LiveFree) the camera keeps
\* delivering frames, every frame with a hand is a thumbs-up, such frames keep
\* arriving, neither q nor Q is pressed and the timestamps keep growing, then
\* the program eventually terminates by the quit gesture.
C19_GestureEventuallyQuits ==
    (pc = "loop" /\ now > LiveFree) ~> (pc = "returned" /\ exit_path = "gesture")

\* a hold that began after LiveFree, saw frames without a hand, and ended in
\* the gesture termination after frames without a hand were no longer possible
C19_Witness ==
    /\ exit_path = "gesture"
    /\ pc = "returned"
    /\ hold_first > LiveFree
    /\ "nohand" \in hold_breaks
    /\ now > LiveIdle + THUMBS_UP_TIME

====
